---- MODULE Spec2Model ----
(***************************************************************************)
(* Model of csv_to_json.py: a CSV vocabulary table is loaded with          *)
(* pandas.read_csv, every row is mapped to an output record in a single    *)
(* pass, and the list of records is serialised with json.dump.             *)
(*                                                                         *)
(* A text is a sequence of one-character strings, so that parsing and      *)
(* formatting are computed rather than assumed.  A float is held exactly   *)
(* as a number of tenths (the sample texts carry at most one fractional    *)
(* digit); exponent notation is outside the modelled grammar.              *)
(***************************************************************************)
EXTENDS Integers, Sequences, FiniteSets, TLC

VARIABLES csv, out, df, result, i, pc, err, n_read, n_open, n_dump

vars == <<csv, out, df, result, i, pc, err, n_read, n_open, n_dump>>

\* Longest table drawn for the input file.
MaxRows == 2

(***************************************************************************)
(* Texts and numbers                                                       *)
(***************************************************************************)
DigitChars == <<"0", "1", "2", "3", "4", "5", "6", "7", "8", "9">>

IsDigit(c) == \E d \in 1..10 : DigitChars[d] = c

DigitVal(c) == (CHOOSE d \in 1..10 : DigitChars[d] = c) - 1

AllDigits(s) == Len(s) >= 1 /\ \A k \in 1..Len(s) : IsDigit(s[k])

RECURSIVE DigitsVal(_)
DigitsVal(s) ==
    IF s = <<>> THEN 0
    ELSE DigitsVal(SubSeq(s, 1, Len(s) - 1)) * 10 + DigitVal(s[Len(s)])

Unsigned(s) == IF s # <<>> /\ s[1] \in {"-", "+"} THEN Tail(s) ELSE s

Sign(s) == IF s # <<>> /\ s[1] = "-" THEN -1 ELSE 1

\* An optionally signed run of decimal digits: what int(str) and the
\* integer column inference of read_csv both accept.
IsIntText(s) == AllDigits(Unsigned(s))

IntVal(s) == Sign(s) * DigitsVal(Unsigned(s))

DotAt(s) == {k \in 1..Len(s) : s[k] = "."}

\* digits "." digit : a decimal with one fractional digit.
IsFloatText(s) ==
    LET u == Unsigned(s) IN
    /\ Cardinality(DotAt(u)) = 1
    /\ LET d == CHOOSE k \in DotAt(u) : TRUE IN
       /\ AllDigits(SubSeq(u, 1, d - 1))
       /\ Len(u) = d + 1
       /\ IsDigit(u[d + 1])

\* The value of a float text, in tenths.
FloatTenths(s) ==
    LET u == Unsigned(s)
        d == CHOOSE k \in DotAt(u) : TRUE
    IN Sign(s) * (DigitsVal(SubSeq(u, 1, d - 1)) * 10 + DigitVal(u[d + 1]))

IsInfText(s) == Unsigned(s) \in {<<"i", "n", "f">>,
                                 <<"I", "n", "f">>,
                                 <<"i", "n", "f", "i", "n", "i", "t", "y">>,
                                 <<"I", "n", "f", "i", "n", "i", "t", "y">>}

IsNumericText(s) == IsIntText(s) \/ IsFloatText(s) \/ IsInfText(s)

\* pandas' default na_values: the cell texts read_csv loads as NaN.
NaTexts ==
    { <<>>,
      <<"#", "N", "/", "A">>, <<"#", "N", "/", "A", " ", "N", "/", "A">>,
      <<"#", "N", "A">>,
      <<"-", "1", ".", "#", "I", "N", "D">>, <<"-", "1", ".", "#", "Q", "N", "A", "N">>,
      <<"-", "N", "a", "N">>, <<"-", "n", "a", "n">>,
      <<"1", ".", "#", "I", "N", "D">>, <<"1", ".", "#", "Q", "N", "A", "N">>,
      <<"<", "N", "A", ">">>, <<"N", "/", "A">>, <<"N", "A">>,
      <<"N", "U", "L", "L">>, <<"N", "a", "N">>, <<"N", "o", "n", "e">>,
      <<"n", "/", "a">>, <<"n", "a", "n">>, <<"n", "u", "l", "l">> }

IsNaText(s) == s \in NaTexts

RECURSIVE NatToText(_)
NatToText(n) ==
    IF n < 10 THEN <<DigitChars[n + 1]>>
    ELSE Append(NatToText(n \div 10), DigitChars[(n % 10) + 1])

\* int.__repr__
IntToText(n) == IF n < 0 THEN <<"-">> \o NatToText(-n) ELSE NatToText(n)

\* float.__repr__ of a finite float held in tenths: 1.5, -2.5, 7.0
FloatToText(v) ==
    LET a == IF v < 0 THEN -v ELSE v IN
    (IF v < 0 THEN <<"-">> ELSE <<>>)
        \o NatToText(a \div 10) \o <<".">> \o <<DigitChars[(a % 10) + 1]>>

(***************************************************************************)
(* Values held by the data frame and by the records                        *)
(***************************************************************************)
StrV(s) == [t |-> "str", s |-> s, v |-> 0]
IntV(n) == [t |-> "int", s |-> <<>>, v |-> n]
\* numpy.int64, the element type of a frame whose columns are all int64
NpIntV(n) == [t |-> "int64", s |-> <<>>, v |-> n]
FloatV(tenths) == [t |-> "float", s |-> <<>>, v |-> tenths]
InfV(sign) == [t |-> "inf", s |-> <<>>, v |-> sign]
NaN == [t |-> "nan", s |-> <<>>, v |-> 0]
None == [t |-> "none", s |-> <<>>, v |-> 0]

(***************************************************************************)
(* The input file                                                          *)
(***************************************************************************)
Columns == {"Word", "English", "Hanja/Ref.", "Classification",
            "Frequency Rank", "Complexity", "Wordreference Link",
            "Wiktionary Link"}

\* The spec's scenario row, with short texts: Hanja/Ref. empty, rank 1.
BaseRow ==
    [c \in Columns |->
        CASE c = "Word" -> <<"a">>
          [] c = "English" -> <<"h", "i">>
          [] c = "Hanja/Ref." -> <<>>
          [] c = "Classification" -> <<"n">>
          [] c = "Frequency Rank" -> <<"1">>
          [] c = "Complexity" -> <<"A", "1">>
          [] c = "Wordreference Link" -> <<"x">>
          [] c = "Wiktionary Link" -> <<"y">>]

With(row, c, text) == [row EXCEPT ![c] = text]

\* A row whose eight cells are all numeric texts.
NumericRow(word, rank, complexity) ==
    [c \in Columns |->
        CASE c = "Word" -> word
          [] c = "Frequency Rank" -> rank
          [] c = "Complexity" -> complexity
          [] OTHER -> <<"4">>]

\* The rows a table of the input file is drawn from.
SampleRows ==
    { BaseRow,
      With(With(With(BaseRow, "Word", <<"b">>), "Hanja/Ref.", <<"h", "j">>),
           "Frequency Rank", <<"1", "2">>),
      With(With(BaseRow, "Word", <<"c">>), "Frequency Rank", <<"1", ".", "5">>),
      With(With(With(BaseRow, "Word", <<"d">>), "Frequency Rank", <<"-", "2", ".", "5">>),
           "Complexity", <<"2">>),
      With(With(BaseRow, "Word", <<"e">>), "Frequency Rank", <<"a", "b">>),
      With(With(BaseRow, "Word", <<"f">>), "Frequency Rank", <<>>),
      With(With(BaseRow, "Word", <<"g">>), "Frequency Rank", <<"i", "n", "f">>),
      With(With(With(BaseRow, "Word", <<>>), "Hanja/Ref.", <<"N", "A">>),
           "English", <<"q", "\\", "\"">>),
      NumericRow(<<"3">>, <<"7">>, <<"2">>),
      NumericRow(<<"5">>, <<"8">>, <<"2", ".", "5">>) }

RECURSIVE SeqsUpTo(_, _)
SeqsUpTo(S, n) ==
    IF n = 0 THEN {<<>>}
    ELSE LET shorter == SeqsUpTo(S, n - 1) IN
         shorter \cup {Append(q, x) : q \in {r \in shorter : Len(r) = n - 1}, x \in S}

Restrict(row, header) == [c \in header |-> row[c]]

\* The header either names all eight columns or lacks exactly one of them.
Headers == {Columns} \cup {Columns \ {c} : c \in Columns}

NoFile == [exists |-> FALSE, header |-> {}, rows |-> <<>>]

CsvFiles ==
    {NoFile} \cup
    { [exists |-> TRUE, header |-> h,
       rows |-> [k \in 1..Len(t) |-> Restrict(t[k], h)]] :
         h \in Headers, t \in SeqsUpTo(SampleRows, MaxRows) }

(***************************************************************************)
(* pd.read_csv: column type inference                                      *)
(***************************************************************************)
ColumnTexts(rows, c) == {rows[k][c] : k \in 1..Len(rows)}

\* The dtype read_csv infers for a column from all of its cells.
ColumnDtype(rows, c) ==
    LET cells == ColumnTexts(rows, c)
        present == {s \in cells : ~IsNaText(s)}
    IN IF cells = {} THEN "object"
       ELSE IF present = cells /\ \A s \in cells : IsIntText(s) THEN "int64"
       ELSE IF \A s \in present : IsNumericText(s) THEN "float64"
       ELSE "object"

\* The value a cell text is loaded as in a column of the given dtype.
CellValue(s, dtype) ==
    IF IsNaText(s) THEN NaN
    ELSE CASE dtype = "int64" -> IntV(IntVal(s))
           [] dtype = "float64" ->
                IF IsInfText(s) THEN InfV(Sign(s))
                ELSE IF IsIntText(s) THEN FloatV(IntVal(s) * 10)
                ELSE FloatV(FloatTenths(s))
           [] OTHER -> StrV(s)

\* The dtype of DataFrame.values, from which iterrows builds each row.
FrameDtype(rows, header) ==
    LET dts == {ColumnDtype(rows, c) : c \in header} IN
    IF dts = {"int64"} THEN "int64"
    ELSE IF dts # {} /\ dts \subseteq {"int64", "float64"} THEN "float64"
    ELSE "object"

\* The element iterrows yields for a loaded value under the frame dtype.
RowElement(val, fdt) ==
    CASE fdt = "int64" -> NpIntV(val.v)
      [] fdt = "float64" /\ val.t = "int" -> FloatV(val.v * 10)
      [] OTHER -> val

\* The rows df.iterrows() yields, in table order.
ReadRows(file) ==
    LET fdt == FrameDtype(file.rows, file.header) IN
    [k \in 1..Len(file.rows) |->
        [c \in file.header |->
            RowElement(CellValue(file.rows[k][c], ColumnDtype(file.rows, c)), fdt)]]

NoFrame == [columns |-> {}, rows |-> <<>>]

read_csv(file) == [columns |-> file.header, rows |-> ReadRows(file)]

(***************************************************************************)
(* The row mapping (the body of the loop)                                  *)
(***************************************************************************)
isna_empty_string(val) == val.t = "none" \/ (val.t = "str" /\ val.s = <<>>)

\* pd.isna on a scalar
isna(val) == val.t \in {"nan", "none"}

FloorTenths(v) == v \div 10

\* Truncation toward zero of a float held in tenths.
TruncTenths(v) == IF v >= 0 THEN v \div 10 ELSE -((-v) \div 10)

\* The exception int(val) raises, "none" when it returns.
IntError(val) ==
    CASE val.t = "nan" -> "ValueError"
      [] val.t = "inf" -> "OverflowError"
      [] val.t = "str" -> IF IsIntText(val.s) THEN "none" ELSE "ValueError"
      [] OTHER -> "none"

\* int(val), where it returns.
IntOf(val) ==
    CASE val.t = "float" -> TruncTenths(val.v)
      [] val.t = "str" -> IntVal(val.s)
      [] OTHER -> val.v

\* The entries of the dict display, in evaluation order: the key, the
\* column it reads and what is done with the cell.
EntryFields ==
    << [key |-> "korean", col |-> "Word", op |-> "get"],
       [key |-> "en", col |-> "English", op |-> "get"],
       [key |-> "zh", col |-> "", op |-> "none"],
       [key |-> "hanja", col |-> "Hanja/Ref.", op |-> "hanja"],
       [key |-> "classification", col |-> "Classification", op |-> "get"],
       [key |-> "frequency", col |-> "Frequency Rank", op |-> "int"],
       [key |-> "complexity", col |-> "Complexity", op |-> "get"],
       [key |-> "wordreferencelink", col |-> "Wordreference Link", op |-> "get"],
       [key |-> "wiktionarylink", col |-> "Wiktionary Link", op |-> "get"] >>

\* The exception evaluating one entry of the display raises, or "none".
FieldError(row, f) ==
    IF f.op = "none" THEN "none"
    ELSE IF f.col \notin DOMAIN row THEN "KeyError"
    ELSE IF f.op = "int" THEN IntError(row[f.col])
    ELSE "none"

\* The value of one entry of the display.
FieldValue(row, f) ==
    CASE f.op = "none" -> None
      [] f.op = "hanja" -> IF isna(row[f.col]) THEN None ELSE row[f.col]
      [] f.op = "int" -> IntV(IntOf(row[f.col]))
      [] OTHER -> row[f.col]

RowErrorLast(row) ==
    LET bad == {k \in 1..Len(EntryFields) : FieldError(row, EntryFields[k]) # "none"} IN
    IF bad = {} THEN "none"
    ELSE FieldError(row, EntryFields[CHOOSE k \in bad : \A j \in bad : k >= j])

\* The first exception raised while building the entry of a row, or "none".
RowError(row) ==
    LET bad == {k \in 1..Len(EntryFields) : FieldError(row, EntryFields[k]) # "none"} IN
    IF bad = {} THEN "none"
    ELSE FieldError(row, EntryFields[CHOOSE k \in bad : \A j \in bad : k <= j])

\* entry: the record of a row, its keys in insertion order.
Entry(row) ==
    [k \in 1..Len(EntryFields) |->
        [key |-> EntryFields[k].key, val |-> FieldValue(row, EntryFields[k])]]

(***************************************************************************)
(* json.dump(result, f, ensure_ascii=False, indent=2)                      *)
(* The file holds the chunks the encoder wrote, without their whitespace.  *)
(***************************************************************************)
Tok(kind, text) == [k |-> kind, s |-> text, name |-> ""]

\* The chunk of a key; the keys are plain identifiers and need no escape.
KeyTok(key) == [k |-> "key", s |-> <<>>, name |-> key]

Punct(c) == Tok(c, <<>>)

\* The escapes of a string literal: backslash and double quote.
RECURSIVE Escape(_)
Escape(s) ==
    IF s = <<>> THEN <<>>
    ELSE (IF s[1] \in {"\\", "\""} THEN <<"\\", s[1]>> ELSE <<s[1]>>)
             \o Escape(Tail(s))

\* The chunk the encoder yields for a scalar; "raise" is the TypeError of
\* an object the encoder has no encoding for.
EncodeValue(val) ==
    CASE val.t = "none" -> Tok("lit", <<"n", "u", "l", "l">>)
      [] val.t = "str" -> Tok("str", Escape(val.s))
      [] val.t = "int" -> Tok("num", IntToText(val.v))
      [] val.t = "float" -> Tok("num", FloatToText(val.v))
      [] val.t = "nan" -> Tok("lit", <<"N", "a", "N">>)
      [] val.t = "inf" ->
            Tok("lit", (IF val.v < 0 THEN <<"-">> ELSE <<>>)
                           \o <<"I", "n", "f", "i", "n", "i", "t", "y">>)
      [] OTHER -> Tok("raise", <<>>)

KeyOrderReversed(entry) == [k \in 1..Len(entry) |-> Len(entry) + 1 - k]

\* The order in which the encoder walks the keys of a record.
KeyOrder(entry) == [k \in 1..Len(entry) |-> k]

RECURSIVE EncodePairs(_, _, _)
EncodePairs(entry, order, k) ==
    IF k > Len(order) THEN <<>>
    ELSE (IF k > 1 THEN <<Punct(",")>> ELSE <<>>)
            \o <<KeyTok(entry[order[k]].key), Punct(":"),
                 EncodeValue(entry[order[k]].val)>>
            \o EncodePairs(entry, order, k + 1)

EncodeDict(entry) ==
    <<Punct("{")>> \o EncodePairs(entry, KeyOrder(entry), 1) \o <<Punct("}")>>

RECURSIVE EncodeItems(_, _)
EncodeItems(list, k) ==
    IF k > Len(list) THEN <<>>
    ELSE (IF k > 1 THEN <<Punct(",")>> ELSE <<>>)
            \o EncodeDict(list[k]) \o EncodeItems(list, k + 1)

\* Every chunk of the array, a "raise" chunk where the encoder would fail.
EncodeList(list) == <<Punct("[")>> \o EncodeItems(list, 1) \o <<Punct("]")>>

Raises(chunks) == {k \in 1..Len(chunks) : chunks[k].k = "raise"}

\* The chunks written to the file: all of them, or those yielded before
\* the first object that cannot be encoded.
Written(chunks) ==
    IF Raises(chunks) = {} THEN chunks
    ELSE SubSeq(chunks, 1, (CHOOSE k \in Raises(chunks) : \A j \in Raises(chunks) : k <= j) - 1)

(***************************************************************************)
(* The run                                                                 *)
(***************************************************************************)
\* What an output file left by an earlier run holds.
OldContent == <<Tok("old", <<>>)>>

OutFiles == { [exists |-> FALSE, content |-> <<>>],
              [exists |-> TRUE, content |-> OldContent] }

Init ==
    /\ csv \in CsvFiles
    /\ out \in OutFiles
    /\ df = NoFrame
    /\ result = <<>>
    /\ i = 1
    /\ pc = "read"
    /\ err = "none"
    /\ n_read = 0
    /\ n_open = 0
    /\ n_dump = 0

\* line 5: df = pd.read_csv(file_path); line 7: result = []
ReadCsv ==
    /\ pc = "read"
    /\ n_read' = n_read + 1
    /\ IF csv.exists
       THEN /\ df' = read_csv(csv)
            /\ pc' = "loop"
            /\ err' = err
       ELSE /\ df' = df
            /\ pc' = "failed"
            /\ err' = "FileNotFoundError"
    /\ result' = <<>>
    /\ i' = 1
    /\ UNCHANGED <<csv, out, n_open, n_dump>>

HasNextRowButLast == i < Len(df.rows)

\* The iterator of df.iterrows() has a next row.
HasNextRow == i <= Len(df.rows)

AppendEntryFront(list, entry) == <<entry>> \o list

\* The list after result.append(entry).
AppendEntry(list, entry) == Append(list, entry)

MapRowStreaming ==
    /\ pc = "loop"
    /\ HasNextRow
    /\ LET row == df.rows[i] IN
       IF RowError(row) = "none"
       THEN /\ result' = AppendEntry(result, Entry(row))
            /\ i' = i + 1
            /\ out' = [exists |-> TRUE,
                       content |-> (IF i = 1 THEN <<>> ELSE out.content)
                                       \o EncodeDict(Entry(row))]
            /\ UNCHANGED <<pc, err>>
       ELSE /\ pc' = "failed"
            /\ err' = RowError(row)
            /\ UNCHANGED <<result, i, out>>
    /\ UNCHANGED <<csv, df, n_read, n_open, n_dump>>

MapRowSkipBad ==
    /\ pc = "loop"
    /\ HasNextRow
    /\ LET row == df.rows[i] IN
       /\ result' = IF RowError(row) = "none"
                    THEN AppendEntry(result, Entry(row)) ELSE result
       /\ i' = i + 1
       /\ UNCHANGED <<pc, err>>
    /\ UNCHANGED <<csv, out, df, n_read, n_open, n_dump>>

\* lines 9-21: one iteration of the loop over row i.
MapRow ==
    /\ pc = "loop"
    /\ HasNextRow
    /\ LET row == df.rows[i] IN
       IF RowError(row) = "none"
       THEN /\ result' = AppendEntry(result, Entry(row))
            /\ i' = i + 1
            /\ UNCHANGED <<pc, err>>
       ELSE /\ pc' = "failed"
            /\ err' = RowError(row)
            /\ UNCHANGED <<result, i>>
    /\ UNCHANGED <<csv, out, df, n_read, n_open, n_dump>>

\* line 23: open("topik_vocab.json", "w") creates or truncates the file.
OpenOutput ==
    /\ pc = "loop"
    /\ ~HasNextRow
    /\ out' = [exists |-> TRUE, content |-> <<>>]
    /\ n_open' = n_open + 1
    /\ pc' = "dump"
    /\ UNCHANGED <<csv, df, result, i, err, n_read, n_dump>>

\* line 24: json.dump writes chunk by chunk; the with block closes the file
\* (flushing what was written) whether or not the encoder raised.
Dump ==
    /\ pc = "dump"
    /\ LET chunks == EncodeList(result) IN
       /\ out' = [out EXCEPT !.content = Written(chunks)]
       /\ IF Raises(chunks) = {}
          THEN pc' = "done" /\ err' = err
          ELSE pc' = "failed" /\ err' = "TypeError"
    /\ n_dump' = n_dump + 1
    /\ UNCHANGED <<csv, df, result, i, n_read, n_open>>

Next == ReadCsv \/ MapRow \/ OpenOutput \/ Dump

Spec == Init /\ [][Next]_vars

(***************************************************************************)
(* Reading the written file back (json.load), used to state the claims     *)
(* about the output file.                                                  *)
(***************************************************************************)
RECURSIVE Unescape(_)
Unescape(s) ==
    IF s = <<>> THEN <<>>
    ELSE IF s[1] = "\\" /\ Len(s) >= 2 THEN <<s[2]>> \o Unescape(SubSeq(s, 3, Len(s)))
    ELSE <<s[1]>> \o Unescape(Tail(s))

\* The value a scalar chunk is parsed as; NaN and Infinity are read as the
\* floats they name, as Python's parser does.
ParseChunk(tok) ==
    CASE tok.k = "str" -> StrV(Unescape(tok.s))
      [] tok.k = "num" ->
            IF DotAt(tok.s) = {} THEN IntV(IntVal(tok.s)) ELSE FloatV(FloatTenths(tok.s))
      [] tok.k = "lit" /\ tok.s = <<"n", "u", "l", "l">> -> None
      [] tok.k = "lit" /\ tok.s = <<"N", "a", "N">> -> NaN
      [] OTHER -> InfV(Sign(tok.s))

RECURSIVE Ascending(_)
Ascending(S) ==
    IF S = {} THEN <<>>
    ELSE LET m == CHOOSE x \in S : \A y \in S : x <= y IN <<m>> \o Ascending(S \ {m})

Positions(toks, kind) == Ascending({k \in 1..Len(toks) : toks[k].k = kind})

\* The array a complete file holds: one sequence of (key, value) pairs per
\* object, in file order.
ParseFile(toks) ==
    LET opens == Positions(toks, "{")
        closes == Positions(toks, "}")
    IN [j \in 1..Len(opens) |->
          LET colons == Ascending({k \in opens[j]..closes[j] : toks[k].k = ":"}) IN
          [m \in 1..Len(colons) |->
              [key |-> toks[colons[m] - 1].name, val |-> ParseChunk(toks[colons[m] + 1])]]]

\* A file that holds one whole array.
WellFormed(toks) ==
    /\ Len(toks) >= 2
    /\ toks[1].k = "[" /\ toks[Len(toks)].k = "]"
    /\ Len(Positions(toks, "{")) = Len(Positions(toks, "}"))
    /\ \A k \in 1..Len(toks) : toks[k].k \notin {"raise", "old"}

\* The value of key in a record (of result, or read back from the file).
Get(entry, key) == entry[CHOOSE k \in 1..Len(entry) : entry[k].key = key].val

Keys(entry) == [k \in 1..Len(entry) |-> entry[k].key]

\* The output file is as it was before the run: absent or with its old content.
Untouched == out \in OutFiles /\ n_open = 0 /\ n_dump = 0

RankText(k) == csv.rows[k]["Frequency Rank"]

(***************************************************************************)
(* C1: for every table of n >= 0 rows on which the run completes, the      *)
(* output has exactly n records, the k-th being the record mapped from the *)
(* k-th input row, both in memory and in the file read back; a header-only *)
(* table gives the empty array.                                            *)
(***************************************************************************)
C1_OneRecordPerRowInOrder ==
    pc = "done" =>
        /\ Len(result) = Len(csv.rows)
        /\ \A k \in 1..Len(csv.rows) : result[k] = Entry(ReadRows(csv)[k])
        /\ WellFormed(out.content)
        /\ Len(ParseFile(out.content)) = Len(csv.rows)
        /\ \A k \in 1..Len(csv.rows) :
              ParseFile(out.content)[k] = Entry(ReadRows(csv)[k])
        /\ (csv.rows = <<>> => out.content = <<Punct("["), Punct("]")>>)

C1_Witness ==
    /\ pc = "done"
    /\ Len(csv.rows) = 2
    /\ csv.rows[1] # csv.rows[2]
    /\ Get(result[1], "korean") # Get(result[2], "korean")

(***************************************************************************)
(* C2 as stated: whatever the failure, a failed run leaves the output file *)
(* neither created, truncated nor partially written, and a completed run   *)
(* has mapped every row and left the complete array.                       *)
(***************************************************************************)
C2_AllOrNothing ==
    /\ pc = "failed" => Untouched
    /\ pc = "done" =>
          /\ Len(result) = Len(csv.rows)
          /\ out.exists /\ out.content = EncodeList(result)
          /\ WellFormed(out.content)

(***************************************************************************)
(* C2 amended: a run that fails before the output is opened (missing input *)
(* file, missing column, Frequency Rank conversion error) leaves the       *)
(* output file untouched; a completed run has mapped every row and left    *)
(* the complete array; a run that fails while serialising has already      *)
(* created or truncated the file, which then holds only the chunks written *)
(* before the failure, not a whole array.                                  *)
(***************************************************************************)
C2_AllOrNothingBeforeOpen ==
    /\ (pc = "failed" /\ err # "TypeError") => Untouched
    /\ pc = "done" =>
          /\ Len(result) = Len(csv.rows)
          /\ out.exists /\ out.content = EncodeList(result)
          /\ WellFormed(out.content)
    /\ (pc = "failed" /\ err = "TypeError") =>
          /\ Len(result) = Len(csv.rows)
          /\ out.exists /\ ~WellFormed(out.content)
          /\ Len(out.content) < Len(EncodeList(result))
          /\ out.content = SubSeq(EncodeList(result), 1, Len(out.content))

C2_Witness ==
    /\ pc = "failed"
    /\ err = "ValueError"
    /\ Len(result) = 1
    /\ out.exists /\ out.content = OldContent

(***************************************************************************)
(* C3 as stated: if any row has a non-numeric Frequency Rank, the run      *)
(* fails with a type-conversion error while mapping that row, and the      *)
(* output file is never opened or written.  Stated here for the tables     *)
(* that have all eight columns, where no other failure can come first.     *)
(***************************************************************************)
NonNumericRank(k) == ~IsNumericText(RankText(k)) /\ ~IsNaText(RankText(k))

HasNonNumericRank ==
    /\ csv.exists
    /\ "Frequency Rank" \in csv.header
    /\ \E k \in 1..Len(csv.rows) : NonNumericRank(k)

C3_FailsAtTheBadRow ==
    (HasNonNumericRank /\ csv.header = Columns) =>
        /\ Untouched
        /\ pc \notin {"dump", "done"}
        /\ pc = "failed" => err \in {"ValueError", "OverflowError"} /\ NonNumericRank(i)

(***************************************************************************)
(* C3 amended: if any row has a non-numeric Frequency Rank, the run never  *)
(* opens or writes the output file and never maps a row past the first     *)
(* such row; when all eight columns are present it fails with a            *)
(* type-conversion error (ValueError) while mapping the first row whose    *)
(* Frequency Rank is not an integer literal, which is that row or an       *)
(* earlier row whose rank is missing, fractional or infinite (the whole    *)
(* column is then loaded as text); when a column is missing, the failure   *)
(* may instead be the missing-field error raised for the first row.        *)
(***************************************************************************)
NotIntRank(k) == ~IsIntText(RankText(k))

FirstNonNumericRank ==
    CHOOSE k \in 1..Len(csv.rows) :
        NonNumericRank(k) /\ \A j \in 1..Len(csv.rows) : NonNumericRank(j) => k <= j

FirstNotIntRank ==
    CHOOSE k \in 1..Len(csv.rows) :
        NotIntRank(k) /\ \A j \in 1..Len(csv.rows) : NotIntRank(j) => k <= j

C3_FailsAtOrBeforeTheBadRow ==
    HasNonNumericRank =>
        /\ Untouched
        /\ pc \notin {"dump", "done"}
        /\ i <= FirstNonNumericRank
        /\ Len(result) < FirstNonNumericRank
        /\ pc = "failed" => err \in {"ValueError", "KeyError"}
        /\ csv.header = Columns =>
              /\ i <= FirstNotIntRank
              /\ pc = "failed" =>
                    /\ err = "ValueError"
                    /\ i = FirstNotIntRank
                    /\ Len(result) = i - 1

C3_Witness ==
    /\ HasNonNumericRank
    /\ pc = "failed"
    /\ err = "ValueError"
    /\ i = 2
    /\ NonNumericRank(2)
    /\ Len(result) = 1

(***************************************************************************)
(* C4 as stated: every table that lacks one of the eight columns makes the *)
(* run end with a missing-field error, without completing or writing.      *)
(***************************************************************************)
LacksColumn == csv.exists /\ csv.header # Columns

C4_MissingColumnFails ==
    LacksColumn =>
        /\ Untouched
        /\ pc \notin {"dump", "done"}
        /\ pc = "failed" => err = "KeyError"

(***************************************************************************)
(* C4 amended: every table with at least one row that lacks one of the     *)
(* eight columns makes the run fail while mapping the first row, without   *)
(* completing or writing; the error is the missing-field error, unless the *)
(* lacking column is read after Frequency Rank (Complexity, Wordreference  *)
(* Link, Wiktionary Link) and the first row's Frequency Rank does not      *)
(* convert, in which case the conversion error is raised first.  (A        *)
(* header-only table lacking a column completes and writes the empty       *)
(* array.)                                                                 *)
(***************************************************************************)
ReadAfterRank == {"Complexity", "Wordreference Link", "Wiktionary Link"}

C4_MissingColumnFailsFirstRow ==
    (LacksColumn /\ csv.rows # <<>>) =>
        /\ Untouched
        /\ pc \notin {"dump", "done"}
        /\ i = 1 /\ result = <<>>
        /\ pc = "failed" =>
              /\ err \in {"KeyError", "ValueError", "OverflowError"}
              /\ err # "KeyError" =>
                    /\ Columns \ csv.header \subseteq ReadAfterRank
                    /\ ~IsIntText(RankText(1))
              /\ ("Frequency Rank" \in csv.header /\ IsIntText(RankText(1))
                     /\ \A k \in 1..Len(csv.rows) : IsNumericText(RankText(k)))
                    => err = "KeyError"

C4_Witness ==
    /\ LacksColumn
    /\ Len(csv.rows) = 2
    /\ pc = "failed"
    /\ err = "KeyError"

(***************************************************************************)
(* C5: in a completed run, for every row, the record's hanja is null       *)
(* exactly when the row's Hanja/Ref. cell is missing (empty or one of the  *)
(* texts loaded as missing), and is otherwise the cell's value unchanged;  *)
(* the same holds of the hanja read back from the file.                    *)
(***************************************************************************)
HanjaText(k) == csv.rows[k]["Hanja/Ref."]

C5_HanjaNullIffMissing ==
    pc = "done" =>
        \A k \in 1..Len(csv.rows) :
            LET cell == df.rows[k]["Hanja/Ref."]
                inmem == Get(result[k], "hanja")
                infile == Get(ParseFile(out.content)[k], "hanja")
            IN /\ (inmem = None) <=> IsNaText(HanjaText(k))
               /\ (inmem = None) <=> (cell = NaN)
               /\ inmem # None => inmem = cell
               /\ (inmem # None /\ cell.t = "str") => inmem.s = HanjaText(k)
               /\ infile = inmem

C5_Witness ==
    /\ pc = "done"
    /\ \E k \in 1..Len(csv.rows) :
          HanjaText(k) = <<"N", "A">> /\ Get(result[k], "hanja") = None
    /\ \E k \in 1..Len(csv.rows) :
          HanjaText(k) = <<"h", "j">> /\ Get(result[k], "hanja") = StrV(<<"h", "j">>)

(***************************************************************************)
(* C6 as stated: in a completed run the file read back has as many records *)
(* as the table has rows and, for every row and every mapped field, the    *)
(* value read back matches the source cell exactly, rows with missing      *)
(* cells included (a missing cell is matched by null).                     *)
(***************************************************************************)
\* The value that matches a cell text exactly: null for a missing cell, the
\* number for a numeric text, the text itself otherwise.
Matches(val, text) ==
    IF IsNaText(text) THEN val = None
    ELSE IF IsIntText(text) THEN val \in {IntV(IntVal(text)), StrV(text)}
    ELSE IF IsFloatText(text) THEN val \in {FloatV(FloatTenths(text)), StrV(text)}
    ELSE val = StrV(text)

C6_RoundTripExact ==
    pc = "done" =>
        /\ Len(ParseFile(out.content)) = Len(csv.rows)
        /\ \A k \in 1..Len(csv.rows) : \A f \in 1..Len(EntryFields) :
              EntryFields[f].op # "none" =>
                  Matches(Get(ParseFile(out.content)[k], EntryFields[f].key),
                          csv.rows[k][EntryFields[f].col])

(***************************************************************************)
(* C7 as stated: every record of a completed run has korean, en,           *)
(* classification, wordreferencelink and wiktionarylink strings, zh null,  *)
(* hanja a string or null, frequency an integer and complexity a string or *)
(* a number, rows with missing cells included.                             *)
(***************************************************************************)
IsFiniteNumber(val) == val.t \in {"int", "float"}

Conforms(entry) ==
    /\ \A key \in {"korean", "en", "classification", "wordreferencelink",
                   "wiktionarylink"} : Get(entry, key).t = "str"
    /\ Get(entry, "zh") = None
    /\ Get(entry, "hanja").t \in {"str", "none"}
    /\ Get(entry, "frequency").t = "int"
    /\ Get(entry, "complexity").t = "str" \/ IsFiniteNumber(Get(entry, "complexity"))

C7_RecordsConform ==
    pc = "done" =>
        \A k \in 1..Len(result) :
            Conforms(result[k]) /\ Conforms(ParseFile(out.content)[k])

(***************************************************************************)
(* C8: every object of the written array, and every record in memory, has  *)
(* exactly the nine keys korean, en, zh, hanja, classification, frequency, *)
(* complexity, wordreferencelink, wiktionarylink, in that order.           *)
(***************************************************************************)
NineKeys == <<"korean", "en", "zh", "hanja", "classification", "frequency",
              "complexity", "wordreferencelink", "wiktionarylink">>

C8_NineKeysInOrder ==
    /\ \A k \in 1..Len(result) : Keys(result[k]) = NineKeys
    /\ pc = "done" =>
          /\ Len(ParseFile(out.content)) = Len(result)
          /\ \A k \in 1..Len(result) : Keys(ParseFile(out.content)[k]) = NineKeys

C8_Witness ==
    /\ pc = "done"
    /\ Len(result) = 2
    /\ Keys(ParseFile(out.content)[2]) = NineKeys

(***************************************************************************)
(* C9: the input is loaded exactly once, before any row is mapped; the     *)
(* output is opened and written at most once, and only after every row of  *)
(* the table has been mapped and appended; once the output is opened the   *)
(* collection is never changed again.                                      *)
(***************************************************************************)
C9_PhaseOrder ==
    /\ [](/\ n_read <= 1 /\ n_open <= 1 /\ n_dump <= n_open
          /\ (pc # "read") => n_read = 1
          /\ (result # <<>> \/ i > 1) => (n_read = 1 /\ csv.exists)
          /\ n_open >= 1 => (/\ Len(result) = Len(df.rows)
                             /\ df = read_csv(csv)
                             /\ \A k \in 1..Len(df.rows) : result[k] = Entry(df.rows[k])))
    /\ [][/\ n_open >= 1 => (result' = result /\ n_read' = n_read)
          /\ n_dump >= 1 => (out' = out /\ n_open' = n_open)]_vars

C9_Witness ==
    /\ pc = "done"
    /\ n_read = 1 /\ n_open = 1 /\ n_dump = 1
    /\ Len(result) = 2

(***************************************************************************)
(* C10: a Frequency Rank with a fractional part does not fail the run: a   *)
(* table with all eight columns whose ranks are all finite numbers never   *)
(* fails while mapping; in a completed run each record's frequency is the  *)
(* row's Frequency Rank truncated toward zero; and a run completes only if *)
(* every row's Frequency Rank is a finite number.                          *)
(***************************************************************************)
IsFiniteText(s) == IsIntText(s) \/ IsFloatText(s)

\* The number a finite numeric text denotes, in tenths.
TextTenths(s) == IF IsIntText(s) THEN IntVal(s) * 10 ELSE FloatTenths(s)

Abs(n) == IF n < 0 THEN -n ELSE n

\* n is v (in tenths) with its fractional part dropped.
IsTowardZero(n, v) ==
    /\ Abs(n) * 10 <= Abs(v)
    /\ Abs(v) - Abs(n) * 10 < 10
    /\ (n < 0 => v < 0) /\ (n > 0 => v > 0)

AllRanksFinite == \A k \in 1..Len(csv.rows) : IsFiniteText(RankText(k))

C10_FrequencyTruncated ==
    /\ (csv.exists /\ csv.header = Columns /\ AllRanksFinite) =>
          /\ pc = "failed" => err = "TypeError"
          /\ pc = "loop" => Len(result) = i - 1
    /\ pc = "done" =>
          /\ AllRanksFinite
          /\ \A k \in 1..Len(csv.rows) :
                /\ Get(result[k], "frequency").t = "int"
                /\ IsTowardZero(Get(result[k], "frequency").v, TextTenths(RankText(k)))
                /\ Get(ParseFile(out.content)[k], "frequency") = Get(result[k], "frequency")

C10_Witness ==
    /\ pc = "done"
    /\ \E k \in 1..Len(csv.rows) :
          RankText(k) = <<"-", "2", ".", "5">> /\ Get(result[k], "frequency") = IntV(-2)
    /\ \E k \in 1..Len(csv.rows) :
          RankText(k) = <<"1", ".", "5">> /\ Get(result[k], "frequency") = IntV(1)

====
